---------------------------- MODULE Spec2Model ----------------------------
(***************************************************************************)
(* Model of the Sheets/Gemini inventory assistant.                         *)
(*                                                                         *)
(*   src/index.js          command-line variant: SheetsService, callTool,  *)
(*                         and the conversational loop of main             *)
(*   src/unnamed/part_000  bot variant: the same SheetsService and         *)
(*                         callTool, and the bot.on("message") handler     *)
(*   src/unnamed/part_001  stand-alone script with free functions          *)
(*                                                                         *)
(* JavaScript values are records [k, s, n]: k is the type tag, s the text  *)
(* of a string, n the value of a number.  The strings the spreadsheet      *)
(* service hands back for a number and for a timestamp are the strings     *)
(* NumStr(n) and TimeStr(t): their text is the numeral of n and the        *)
(* "YYYY-MM-DD HH:MM:SS" rendering of second t, which order as n and t do.  *)
(***************************************************************************)
EXTENDS Integers, Sequences, FiniteSets, TLC

VARIABLES
    sheet,      \* the backend table: the rows values.get returns for A:D
    clock,      \* wall clock, in ticks of 1/TicksPerSecond second
    alive,      \* FALSE once process.exit has been called
    call,       \* the last adapter call: method, arguments, result, table before
    ops,        \* number of calls made so far
    disp,       \* the last tool dispatch: the request and what callTool did with it
    variant,    \* "bot" (part_000) or "cli" (index.js)
    chatSessions, \* the session handle stored for each chat identity (0: none)
    created,    \* number of model.startChat calls made
    sessionTools, \* the tool names each session was started with ({}: not started)
    sent,       \* the submissions each session has received, in order
    turn,       \* each incoming message's handler: its position and its locals
    exited      \* the command-line loop has read "exit"

vars == <<sheet, clock, alive, call, ops, disp, variant, chatSessions, created, sessionTools, sent,
          turn, exited>>

loopVars == <<variant, chatSessions, created, sessionTools, sent, turn, exited>>

-----------------------------------------------------------------------------
(* Bounds *)

TicksPerSecond == 2
MaxClock == 2
MaxOps == 2
MaxRows == 4
MaxMsgs == 2

-----------------------------------------------------------------------------
(* JavaScript values *)

Str(s) == [k |-> "str", s |-> s, n |-> 0]
Num(n) == [k |-> "num", s |-> "", n |-> n]
NumStr(n) == [k |-> "str", s |-> "#", n |-> n]
TimeStr(t) == [k |-> "str", s |-> "@", n |-> t]
Undef == [k |-> "undef", s |-> "", n |-> 0]

\* JavaScript truthiness, as used by `row[index] || ""`.
Truthy(v) ==
    CASE v.k = "str" -> v # Str("")
      [] v.k = "num" -> v.n # 0
      [] OTHER -> FALSE

\* a || b
OrElse(a, b) == IF Truthy(a) THEN a ELSE b

\* String.prototype.toLowerCase on the texts the model uses.
LowerText(s) ==
    CASE s = "Laptop" -> "laptop"
      [] s = "LAPTOP" -> "laptop"
      [] s = "Mouse" -> "mouse"
      [] s = "MOUSE" -> "mouse"
      [] s = "Cookies" -> "cookies"
      [] OTHER -> s

toLowerCase(v) == [v EXCEPT !.s = LowerText(v.s)]

\* seq[i] with a JavaScript (0-based) index; undefined outside the array.
At(seq, i) == IF i >= 0 /\ i < Len(seq) THEN seq[i + 1] ELSE Undef

\* Array.prototype.indexOf: the first 0-based position of x, or -1.
indexOf(seq, x) ==
    IF \E i \in 1..Len(seq) : seq[i] = x
    THEN (CHOOSE i \in 1..Len(seq) :
              seq[i] = x /\ \A j \in 1..(i - 1) : seq[j] # x) - 1
    ELSE -1

\* new Date().toLocaleString("en-CA", {... second: "2-digit" ...}): the clock
\* rendered to whole seconds.
currentTime(now) == TimeStr(now \div TicksPerSecond)

-----------------------------------------------------------------------------
(* The spreadsheet service *)

\* valueInputOption USER_ENTERED followed by values.get: a number comes back
\* as its numeral, a string as itself.
UserEntered(v) ==
    CASE v.k = "num" -> NumStr(v.n)
      [] v.k = "str" -> v
      [] OTHER -> Str("")

Letters == <<"A", "B", "C", "D">>

\* String.fromCharCode(65 + index) for the columns of A:D.
fromCharCode65(index) == IF index >= 0 /\ index < 4 THEN Letters[index + 1] ELSE "?"

\* The service's reading of a column letter (1-based column).
ColumnOf(letter) == CHOOSE c \in 1..4 : Letters[c] = letter

Pad(row, n) == [c \in 1..n |-> IF c <= Len(row) THEN row[c] ELSE Str("")]

\* One cell write of valueInputOption USER_ENTERED at an A1 range; a null
\* (undefined) value is skipped by the service.
WriteCell(rows, range, v) ==
    LET c == ColumnOf(range.col)
        r == range.row
        grown == [i \in 1..(IF r > Len(rows) THEN r ELSE Len(rows)) |->
                     IF i <= Len(rows) THEN rows[i] ELSE <<>>]
        row == Pad(grown[r], IF c > Len(grown[r]) THEN c ELSE Len(grown[r]))
    IN  IF v.k = "undef" THEN rows
        ELSE [grown EXCEPT ![r] = [row EXCEPT ![c] = UserEntered(v)]]

\* A batchUpdate that applies only its first range.
batchUpdateFirstOnly(rows, requests) ==
    WriteCell(rows, requests[1].range, requests[1].value)

\* spreadsheets.values.batchUpdate with two ranges.
batchUpdate(rows, requests) ==
    WriteCell(WriteCell(rows, requests[1].range, requests[1].value),
              requests[2].range, requests[2].value)

\* spreadsheets.values.append: one row after the last row of the table.
append(rows, values) ==
    Append(rows, [c \in 1..Len(values) |-> UserEntered(values[c])])

-----------------------------------------------------------------------------
(* SheetsService: the three tools.  Each operator maps the table, the call's *)
(* arguments, the clock and the backend call that fails (if any) to the     *)
(* string returned and the table left behind.                               *)

\* A template literal: its text and the values substituted into it.
Result(text, args) == [type |-> "string", text |-> text, args |-> args, lines |-> <<>>]

Outcome(result, rows) == [result |-> result, rows |-> rows]

\* headers.forEach((header, index) => item[header] = row[index] || "")
Item(headers, row) ==
    [h \in {headers[i] : i \in 1..Len(headers)} |->
        LET last == CHOOSE i \in 1..Len(headers) :
                        headers[i] = h /\ \A j \in (i + 1)..Len(headers) : headers[j] # h
        IN  OrElse(At(row, last - 1), Str(""))]

\* item["Name"]: undefined when no header has that text.
Field(item, name) == IF Str(name) \in DOMAIN item THEN item[Str(name)] ELSE Undef

\* One line of the summary: `- Item: ${item["Name"]}, Quantity: ..., Price: ..., Last Updated: ...`
Line(item) ==
    [Name |-> Field(item, "Name"), Quantity |-> Field(item, "Quantity"),
     Price |-> Field(item, "Price"), LastUpdated |-> Field(item, "Last Updated")]

readInventory(rows, fail) ==
    IF fail = "get"
    THEN Outcome(Result("Failed to read inventory.", <<>>), rows)
    ELSE IF Len(rows) = 0
    THEN Outcome(Result("No data found in inventory.", <<>>), rows)
    ELSE LET headers == rows[1]
             data == [i \in 1..(Len(rows) - 1) |-> Item(headers, rows[i + 1])]
         IN  Outcome([Result("Current Inventory:\n", <<>>) EXCEPT
                         !.lines = [i \in 1..Len(data) |-> Line(data[i])]],
                     rows)

addRow(rows, itemName, quantity, price, now, fail) ==
    LET values == <<itemName, quantity, price, currentTime(now)>>
    IN  IF fail = "none"
        THEN Outcome(Result("Successfully added '${itemName}' to the inventory.",
                            <<itemName>>),
                     append(rows, values))
        ELSE Outcome(Result("Failed to add '${itemName}'.", <<itemName>>), rows)

\* The loop `for (let i = 1; i < rows.length; i++)`: the first 0-based row
\* index whose name cell equals itemName ignoring case, or -1.
Matches(rows, i, itemColIndex, itemName) ==
    LET cell == At(rows[i + 1], itemColIndex)
    IN  cell.k # "undef" /\ toLowerCase(cell) = toLowerCase(itemName)

\* The scan without its `break`: the last matching row wins.
FindRowIndexLast(rows, itemColIndex, itemName) ==
    IF \E i \in 1..(Len(rows) - 1) : Matches(rows, i, itemColIndex, itemName)
    THEN CHOOSE i \in 1..(Len(rows) - 1) :
             /\ Matches(rows, i, itemColIndex, itemName)
             /\ \A j \in (i + 1)..(Len(rows) - 1) : ~Matches(rows, j, itemColIndex, itemName)
    ELSE -1

\* The scan with `let rowIndex = 0` in place of `let rowIndex = -1`.
FindRowIndexFromZero(rows, itemColIndex, itemName) ==
    IF \E i \in 1..(Len(rows) - 1) : Matches(rows, i, itemColIndex, itemName)
    THEN CHOOSE i \in 1..(Len(rows) - 1) :
             /\ Matches(rows, i, itemColIndex, itemName)
             /\ \A j \in 1..(i - 1) : ~Matches(rows, j, itemColIndex, itemName)
    ELSE 0

FindRowIndex(rows, itemColIndex, itemName) ==
    IF \E i \in 1..(Len(rows) - 1) : Matches(rows, i, itemColIndex, itemName)
    THEN CHOOSE i \in 1..(Len(rows) - 1) :
             /\ Matches(rows, i, itemColIndex, itemName)
             /\ \A j \in 1..(i - 1) : ~Matches(rows, j, itemColIndex, itemName)
    ELSE -1

\* The requests with the columns of the usual layout (B and D) written in.
UpdateRequestsFixedColumns(quantityColIndex, lastUpdatedColIndex, currentRowNumber, newQuantity, now) ==
    << [range |-> [col |-> "B", row |-> currentRowNumber], value |-> newQuantity],
       [range |-> [col |-> "D", row |-> currentRowNumber], value |-> currentTime(now)] >>

UpdateRequests(quantityColIndex, lastUpdatedColIndex, currentRowNumber, newQuantity, now) ==
    << [range |-> [col |-> fromCharCode65(quantityColIndex), row |-> currentRowNumber],
        value |-> newQuantity],
       [range |-> [col |-> fromCharCode65(lastUpdatedColIndex), row |-> currentRowNumber],
        value |-> currentTime(now)] >>

updateItemQuantity(rows, itemName, newQuantity, now, fail) ==
    LET failed == Outcome(Result("Failed to update '${itemName}'.", <<itemName>>), rows)
    IN
    IF fail = "get" THEN failed
    ELSE IF Len(rows) = 0
    THEN Outcome(Result("Item '${itemName}' not found (sheet is empty).", <<itemName>>), rows)
    ELSE
    LET headers == rows[1]
        itemColIndex == indexOf(headers, Str("Name"))
        quantityColIndex == indexOf(headers, Str("Quantity"))
        lastUpdatedColIndex == indexOf(headers, Str("Last Updated"))
    IN
    IF itemColIndex = -1 \/ quantityColIndex = -1 \/ lastUpdatedColIndex = -1
    THEN Outcome(Result("Error: Missing expected column (Item Name, Quantity, or Last Updated) in your sheet headers. Please ensure the sheet has these exact headers.", <<>>), rows)
    \* itemName.toLowerCase() raises a TypeError in the first comparison
    \* when itemName is not a string; the catch turns it into the failure.
    ELSE IF Len(rows) > 1 /\ itemName.k # "str" THEN failed
    ELSE
    LET rowIndex == FindRowIndex(rows, itemColIndex, itemName)
    IN
    IF rowIndex = -1
    THEN Outcome(Result("Item '${itemName}' not found in inventory.", <<itemName>>), rows)
    ELSE IF fail = "write" THEN failed
    ELSE Outcome(Result("Updated quantity of '${itemName}' to ${newQuantity}.",
                        <<itemName, newQuantity>>),
                 batchUpdate(rows, UpdateRequests(quantityColIndex, lastUpdatedColIndex,
                                                  rowIndex + 1, newQuantity, now)))

\* sheetsService[name](...argv): the method body run with its parameters bound
\* positionally; a parameter past the end of argv is undefined.
Invoke(rows, name, argv, now, fail) ==
    CASE name = "readInventory" -> readInventory(rows, fail)
      [] name = "addRow" ->
            addRow(rows, At(argv, 0), At(argv, 1), At(argv, 2), now, fail)
      [] name = "updateItemQuantity" ->
            updateItemQuantity(rows, At(argv, 0), At(argv, 1), now, fail)

\* The backend calls a method makes, any of which may fail.
FailModes(name) ==
    CASE name = "readInventory" -> {"none", "get"}
      [] name = "addRow" -> {"none", "write"}
      [] name = "updateItemQuantity" -> {"none", "get", "write"}

CallRecord(name, argv, result, before, at, fail) ==
    [op |-> name, argv |-> argv, result |-> result, before |-> before,
     at |-> at, fail |-> fail]

NoCall == CallRecord("none", <<>>, Result("", <<>>), <<>>, 0, "none")

-----------------------------------------------------------------------------
(* callTool: the dispatcher *)

\* The function declarations handed to model.startChat({tools}).
RegisteredTools == {"readInventory", "addRow", "updateItemQuantity"}

\* sheetsService[name]: what the property lookup on the adapter object finds,
\* own properties and prototype chain included.
Member(name) ==
    CASE name \in RegisteredTools -> "tool"
      [] name = "getSheetInstance" -> "getSheetInstance"
      [] name = "constructor" -> "constructor"
      [] name = "toString" -> "toString"
      [] name \in {"sheets", "spreadsheetId", "worksheetName"} -> "data"
      [] OTHER -> "absent"

\* sheetsService[name] && typeof sheetsService[name] === "function"
IsFunction(name) == Member(name) \in {"tool", "getSheetInstance", "constructor", "toString"}

\* An argument bag: an object with its keys in insertion order, or undefined.
Bag(entries) == [defined |-> TRUE, entries |-> entries]
NoArgs == [defined |-> FALSE, entries |-> <<>>]
Entry(key, value) == [key |-> key, value |-> value]

\* Object.values(args): the values in the bag's own key order.
ObjectValues(args) == [i \in 1..Len(args.entries) |-> args.entries[i].value]

Envelope(name, content) ==
    [functionResponse |-> [name |-> name, response |-> [content |-> content]]]

NoEnvelope == Envelope("", Result("", <<>>))

\* `Error: Failed to execute tool ${name}. ${error.message}`
Failed(name, message) ==
    Envelope(name, Result("Error: Failed to execute tool ${name}. ${error.message}",
                          <<Str(name), Str(message)>>))

Dispatched(envelope, returned, invoked, argv, result, rows) ==
    [envelope |-> envelope, returned |-> returned, invoked |-> invoked,
     argv |-> argv, result |-> result, rows |-> rows]

\* The backend calls behind a member, any of which may fail.
DispatchFailModes(name) ==
    CASE Member(name) = "tool" -> FailModes(name)
      [] Member(name) = "getSheetInstance" -> {"none", "get"}
      [] OTHER -> {"none"}

callTool(rows, functionCall, now, fail) ==
    LET name == functionCall.name
        args == functionCall.args
    IN
    IF ~IsFunction(name)
    THEN Dispatched(Envelope(name, Result("Error: Function ${name} is not implemented.",
                                          <<Str(name)>>)),
                    TRUE, "none", <<>>, Result("", <<>>), rows)
    \* Object.values(undefined) raises inside the try block.
    ELSE IF ~args.defined
    THEN Dispatched(Failed(name, "Cannot convert undefined or null to object"),
                    TRUE, "none", <<>>, Result("", <<>>), rows)
    ELSE
    CASE Member(name) = "tool" ->
            LET o == Invoke(rows, name, ObjectValues(args), now, fail)
            IN  Dispatched(Envelope(name, o.result), TRUE, name, ObjectValues(args),
                           o.result, o.rows)
      \* A class constructor called without `new` raises a TypeError.
      [] Member(name) = "constructor" ->
            Dispatched(Failed(name, "Class constructor SheetsService cannot be invoked without 'new'"),
                       TRUE, "none", <<>>, Result("", <<>>), rows)
      \* getSheetInstance returns true, or calls process.exit(1) when
      \* spreadsheets.get fails: callTool then never returns.
      [] Member(name) = "getSheetInstance" ->
            IF fail = "none"
            THEN LET true == [Result("true", <<>>) EXCEPT !.type = "boolean"]
                 IN  Dispatched(Envelope(name, true), TRUE, name, ObjectValues(args),
                                true, rows)
            ELSE Dispatched(NoEnvelope, FALSE, name, ObjectValues(args),
                            Result("", <<>>), rows)
      \* Object.prototype.toString
      [] Member(name) = "toString" ->
            LET text == Result("[object Object]", <<>>)
            IN  Dispatched(Envelope(name, text), TRUE, name, ObjectValues(args), text, rows)

DispatchRecord(functionCall, d) ==
    [fc |-> functionCall, envelope |-> d.envelope, returned |-> d.returned,
     invoked |-> d.invoked, argv |-> d.argv]

NoDispatch ==
    [fc |-> [name |-> "", args |-> NoArgs], envelope |-> NoEnvelope, returned |-> FALSE,
     invoked |-> "none", argv |-> <<>>]

-----------------------------------------------------------------------------
(* The state of the turn loop before any message *)

Chats == {1, 2}
Msgs == 1..MaxMsgs

NoReply == [state |-> "none", parts |-> <<>>]

NewTurn ==
    [pc |-> "new", chatId |-> 0, chat |-> 0, first |-> NoReply, second |-> NoReply,
     functionCall |-> [name |-> "", args |-> NoArgs], toolCalls |-> 0,
     toolResponse |-> NoEnvelope, replies |-> <<>>, during |-> {},
     delivered |-> <<>>]

\* No message has arrived: the state of the loop when it is not running.
LoopIdle ==
    /\ variant = "cli"
    /\ chatSessions = [c \in Chats |-> 0]
    /\ created = 0
    /\ sessionTools = [session \in Msgs |-> {}]
    /\ sent = [session \in Msgs |-> <<>>]
    /\ turn = [m \in Msgs |-> NewTurn]
    /\ exited = FALSE

-----------------------------------------------------------------------------
(* Tables and arguments the adapter is exercised on *)

CanonHeaders == <<Str("Name"), Str("Quantity"), Str("Price"), Str("Last Updated")>>

Permute(row, p) == [c \in 1..Len(row) |-> row[p[c]]]

HeaderRows ==
    {Permute(CanonHeaders, p) : p \in Permutations(1..4)}
      \cup { <<Str("Name"), Str("Quantity"), Str("Last Updated")>>,
             <<Str("Name"), Str("Price"), Str("Last Updated")>>,
             <<Str("Item"), Str("Quantity"), Str("Price"), Str("Last Updated")>>,
             <<Str("Name"), Str("Quantity"), Str("Quantity"), Str("Last Updated")>> }

\* An inventory row <<name, quantity, price, last updated>> laid out under headers.
CellFor(header, item) ==
    CASE header = Str("Quantity") -> item[2]
      [] header = Str("Price") -> item[3]
      [] header = Str("Last Updated") -> item[4]
      [] OTHER -> item[1]

RowFor(headers, item) == [c \in 1..Len(headers) |-> CellFor(headers[c], item)]

Laptop == <<Str("Laptop"), NumStr(5), NumStr(1200), TimeStr(0)>>
Laptop2 == <<Str("LAPTOP"), NumStr(7), NumStr(900), TimeStr(0)>>
Mouse == <<Str("Mouse"), NumStr(50), NumStr(25), TimeStr(0)>>

ItemLists == { <<>>, <<Mouse, Laptop, Laptop2>> }

Table(headers, items) ==
    <<headers>> \o [i \in 1..Len(items) |-> RowFor(headers, items[i])]

Tables == {<<>>} \cup {Table(h, items) : h \in HeaderRows, items \in ItemLists}

UpdateNames == {Str("laptop"), Str("Cookies"), Num(55)}
UpdateQuantities == {Num(8)}

-----------------------------------------------------------------------------
(* The adapter on its own: one caller, one call at a time *)

AdapterCall(name, argv, fail) ==
    LET o == Invoke(sheet, name, argv, clock, fail)
    IN  /\ call' = CallRecord(name, argv, o.result, sheet, clock, fail)
        /\ sheet' = o.rows

ReadInventory ==
    /\ ops < MaxOps
    /\ \E fail \in FailModes("readInventory") : AdapterCall("readInventory", <<>>, fail)
    /\ ops' = ops + 1
    /\ UNCHANGED <<clock, alive, disp, loopVars>>

AddRow ==
    /\ ops < MaxOps
    /\ Len(sheet) <= MaxRows
    /\ \E fail \in FailModes("addRow") :
           AdapterCall("addRow", <<Str("Cookies"), Num(20), Num(75)>>, fail)
    /\ ops' = ops + 1
    /\ UNCHANGED <<clock, alive, disp, loopVars>>

UpdateItemQuantity ==
    /\ ops < MaxOps
    /\ \E itemName \in UpdateNames, newQuantity \in UpdateQuantities,
          fail \in FailModes("updateItemQuantity") :
           AdapterCall("updateItemQuantity", <<itemName, newQuantity>>, fail)
    /\ ops' = ops + 1
    /\ UNCHANGED <<clock, alive, disp, loopVars>>

Tick ==
    /\ clock < MaxClock
    /\ clock' = clock + 1
    /\ UNCHANGED <<sheet, alive, call, ops, disp, loopVars>>

InitAdapter ==
    /\ sheet \in Tables
    /\ clock = 0
    /\ alive = TRUE
    /\ call = NoCall
    /\ ops = 0
    /\ disp = NoDispatch
    /\ LoopIdle

NextAdapter == ReadInventory \/ AddRow \/ UpdateItemQuantity \/ Tick

SpecAdapter == InitAdapter /\ [][NextAdapter]_vars

-----------------------------------------------------------------------------
(* The stand-alone script (part_001): updateItemQuantity as a free function *)

\* The function returns undefined; what it reports goes to the console.
Logged(text, args) == [Result(text, args) EXCEPT !.type = "undefined"]

\* spreadsheets.values.update: one cell write.
update(rows, range, value) == WriteCell(rows, range, value)

\* The backend calls of the script's update: the read, the write of the
\* quantity, the write of the timestamp.
ScriptFailModes == {"none", "get", "writeQuantity", "writeLastUpdated"}

\* updateItemQuantity of part_001: two values.update calls, the quantity
\* first; `now` is the time the timestamp is taken, after the first write.
scriptUpdateItemQuantity(rows, itemName, newQuantity, now, fail) ==
    LET failed(left) ==
            Outcome(Logged("The API returned an error updating item: ${err}", <<>>), left)
    IN
    IF fail = "get" THEN failed(rows)
    ELSE IF Len(rows) = 0
    THEN Outcome(Logged("Item '${itemName}' not found (sheet is empty).", <<itemName>>), rows)
    ELSE
    LET headers == rows[1]
        itemColIndex == indexOf(headers, Str("Name"))
        quantityColIndex == indexOf(headers, Str("Quantity"))
        lastUpdatedColIndex == indexOf(headers, Str("Last Updated"))
    IN
    IF itemColIndex = -1 \/ quantityColIndex = -1 \/ lastUpdatedColIndex = -1
    THEN Outcome(Logged("Error: Missing expected column (Item Name, Quantity, or Last Updated) in your sheet headers.", <<>>), rows)
    ELSE IF Len(rows) > 1 /\ itemName.k # "str" THEN failed(rows)
    ELSE
    LET rowIndex == FindRowIndex(rows, itemColIndex, itemName)
        currentRowNumber == rowIndex + 1
        quantityWritten ==
            update(rows, [col |-> fromCharCode65(quantityColIndex), row |-> currentRowNumber],
                   newQuantity)
    IN
    IF rowIndex = -1
    THEN Outcome(Logged("Item '${itemName}' not found in inventory.", <<itemName>>), rows)
    ELSE IF fail = "writeQuantity" THEN failed(rows)
    ELSE IF fail = "writeLastUpdated" THEN failed(quantityWritten)
    ELSE Outcome(Logged("Updated quantity of '${itemName}' to ${newQuantity}.",
                        <<itemName, newQuantity>>),
                 update(quantityWritten,
                        [col |-> fromCharCode65(lastUpdatedColIndex), row |-> currentRowNumber],
                        currentTime(now)))

\* One run of the script's update; the clock may advance while it awaits the
\* first write.
ScriptUpdateItemQuantity ==
    /\ ops < MaxOps
    /\ \E itemName \in UpdateNames, newQuantity \in UpdateQuantities,
          fail \in ScriptFailModes, now \in clock..MaxClock :
          LET o == scriptUpdateItemQuantity(sheet, itemName, newQuantity, now, fail)
          IN  /\ call' = CallRecord("updateItemQuantity", <<itemName, newQuantity>>,
                                    o.result, sheet, now, fail)
              /\ sheet' = o.rows
              /\ clock' = now
    /\ ops' = ops + 1
    /\ UNCHANGED <<alive, disp, loopVars>>

NextScript == ScriptUpdateItemQuantity \/ Tick

SpecScript == InitAdapter /\ [][NextScript]_vars

-----------------------------------------------------------------------------
(* Vocabulary of the adapter's properties *)

\* The summary lines readInventory renders for a table.
Listed(rows) == readInventory(rows, "none").result.lines

HasHeader(rows, name) == Len(rows) > 0 /\ \E c \in 1..Len(rows[1]) : rows[1][c] = Str(name)

HasUpdateHeaders(rows) ==
    HasHeader(rows, "Name") /\ HasHeader(rows, "Quantity") /\ HasHeader(rows, "Last Updated")

DistinctHeaders(rows) ==
    Len(rows) > 0 /\ \A c, d \in 1..Len(rows[1]) : rows[1][c] = rows[1][d] => c = d

\* Two names equal ignoring case.
SameName(a, b) == a.k = "str" /\ b.k = "str" /\ LowerText(a.s) = LowerText(b.s)

\* The data rows (numbered from 1 below the header) whose name is `name`.
NamedRows(rows, name) ==
    {i \in 1..(Len(rows) - 1) : SameName(Listed(rows)[i].Name, name)}

FirstNamed(rows, name) ==
    CHOOSE i \in NamedRows(rows, name) : \A j \in NamedRows(rows, name) : i <= j

IsUpdate == call.op = "updateItemQuantity"
UpdName == call.argv[1]
UpdQuantity == call.argv[2]

UpdatedText == "Updated quantity of '${itemName}' to ${newQuantity}."
NotFoundText == "Item '${itemName}' not found in inventory."
SheetEmptyText == "Item '${itemName}' not found (sheet is empty)."

\* A well-formed update naming an existing item, with the backend answering.
UpdateOfExisting ==
    /\ IsUpdate
    /\ call.fail = "none"
    /\ UpdName.k = "str"
    /\ HasUpdateHeaders(call.before)
    /\ DistinctHeaders(call.before)
    /\ NamedRows(call.before, UpdName) # {}

-----------------------------------------------------------------------------
(* C1 *)

\* C1 as stated: an update naming an existing item returns the success
\* string, and readInventory then shows the row with the new quantity and a
\* Last Updated value strictly later than the one it had before the call.
C1_StrictlyLater ==
    UpdateOfExisting =>
        LET r == FirstNamed(call.before, UpdName)
        IN  /\ call.result = Result(UpdatedText, <<UpdName, UpdQuantity>>)
            /\ Listed(sheet)[r].Quantity = NumStr(UpdQuantity.n)
            /\ Listed(sheet)[r].LastUpdated.n > Listed(call.before)[r].LastUpdated.n

\* C1 amended: an update naming an existing item returns the success string,
\* and readInventory then shows the first such row with the new quantity and
\* with the Last Updated value of the second the call was made in (so a
\* value written earlier in that same second is left as it was).
C1_UpdateReflected ==
    UpdateOfExisting =>
        LET r == FirstNamed(call.before, UpdName)
            shown == Listed(sheet)[r]
            was == Listed(call.before)[r]
        IN  /\ call.result = Result(UpdatedText, <<UpdName, UpdQuantity>>)
            /\ Len(Listed(sheet)) = Len(Listed(call.before))
            /\ shown.Quantity = NumStr(UpdQuantity.n)
            /\ shown.Name = was.Name
            /\ shown.LastUpdated.s = "@"
            /\ shown.LastUpdated.n * TicksPerSecond <= call.at
            /\ call.at < (shown.LastUpdated.n + 1) * TicksPerSecond

\* An update of an existing item made in the second its row was last written in.
C1_Witness ==
    /\ UpdateOfExisting
    /\ LET r == FirstNamed(call.before, UpdName)
       IN  /\ Listed(sheet)[r].LastUpdated = Listed(call.before)[r].LastUpdated
           /\ Listed(sheet)[r].Quantity # Listed(call.before)[r].Quantity

-----------------------------------------------------------------------------
(* C2 *)

\* A well-formed update naming no item of a table that is empty or has the
\* headers, with the backend read answering.
UpdateOfMissing ==
    /\ IsUpdate
    /\ call.fail # "get"
    /\ UpdName.k = "str"
    /\ call.before = <<>> \/ HasUpdateHeaders(call.before)
    /\ NamedRows(call.before, UpdName) = {}

\* C2 as stated: an update naming no existing item, the empty table
\* included, returns the one fixed "not found" string and writes no cell.
C2_OneNotFoundString ==
    UpdateOfMissing =>
        /\ call.result = Result(NotFoundText, <<UpdName>>)
        /\ sheet = call.before

\* C2 amended: an update naming no existing item writes no cell and returns
\* the "not found in inventory" string when the table has its header row, and
\* the separate "not found (sheet is empty)" string when the table has no rows.
C2_NotFoundUnchanged ==
    UpdateOfMissing =>
        /\ sheet = call.before
        /\ call.result =
              IF call.before = <<>> THEN Result(SheetEmptyText, <<UpdName>>)
              ELSE Result(NotFoundText, <<UpdName>>)

\* An update naming no item of a table that has data rows.
C2_Witness ==
    /\ UpdateOfMissing
    /\ Len(call.before) > 1
    /\ call.result.text = NotFoundText

-----------------------------------------------------------------------------
(* C3 *)

\* C3 as stated: after a successful addRow on any table, the empty one
\* included, readInventory lists exactly one more row, carrying the added
\* name, quantity and price, and the rows listed before are unchanged.
C3_OneMoreRowListed ==
    (call.op = "addRow" /\ call.fail = "none") =>
        LET was == Listed(call.before)
            now == Listed(sheet)
        IN  /\ Len(now) = Len(was) + 1
            /\ \A i \in 1..Len(was) : now[i] = was[i]
            /\ now[Len(now)].Name = UserEntered(call.argv[1])
            /\ now[Len(now)].Quantity = UserEntered(call.argv[2])
            /\ now[Len(now)].Price = UserEntered(call.argv[3])

-----------------------------------------------------------------------------
(* C4 *)

\* The header row holds the four headers, each once, in some order.
IsPermuted(rows) ==
    /\ Len(rows) > 0
    /\ Len(rows[1]) = 4
    /\ \A c \in 1..4 : HasHeader(rows, CanonHeaders[c].s)

\* The table with its columns put back in the order Name, Quantity, Price,
\* Last Updated.
Unpermuted(rows) ==
    [i \in 1..Len(rows) |->
        [c \in 1..4 |-> OrElse(At(rows[i], indexOf(rows[1], CanonHeaders[c])), Str(""))]]

\* C4: on a table whose header row is a permutation of the four headers,
\* readInventory renders the records it renders for the unpermuted table, and
\* updateItemQuantity returns what it returns there and leaves the table
\* that, unpermuted, is the table it leaves there: the same row matched, the
\* quantity and timestamp under the Quantity and Last Updated headers.
C4_OrderIndependent ==
    /\ IsPermuted(sheet) => Listed(sheet) = Listed(Unpermuted(sheet))
    /\ (IsUpdate /\ IsPermuted(call.before)) =>
          LET there == updateItemQuantity(Unpermuted(call.before), UpdName,
                                          UpdQuantity, call.at, call.fail)
          IN  /\ call.result = there.result
              /\ Unpermuted(sheet) = there.rows
              /\ Listed(sheet) = Listed(there.rows)

\* A successful update on a table whose Quantity column is not column B.
C4_Witness ==
    /\ IsUpdate
    /\ IsPermuted(call.before)
    /\ call.before[1][2] # Str("Quantity")
    /\ call.result.text = UpdatedText
    /\ sheet # call.before

-----------------------------------------------------------------------------
(* The dispatcher on its own: one request at a time *)

Cookies == <<Entry("itemName", Str("Cookies")), Entry("quantity", Num(20)),
             Entry("price", Num(75))>>

ArgBags ==
    { NoArgs, Bag(<<>>),
      Bag(Cookies),
      Bag(<<Cookies[1], Cookies[3], Cookies[2]>>),
      Bag(<<Entry("itemName", Str("Mouse")), Entry("newQuantity", Num(55))>>),
      Bag(<<Entry("newQuantity", Num(55)), Entry("itemName", Str("Mouse"))>>),
      Bag(<<Entry("itemName", Str("laptop")), Entry("newQuantity", Num(8))>>) }

ToolNames ==
    RegisteredTools \cup {"getSheetInstance", "constructor", "toString",
                          "spreadsheetId", "deleteRow"}

FunctionCalls == [name : ToolNames, args : ArgBags]

DispatchTables ==
    { <<>>, Table(CanonHeaders, <<Laptop>>), Table(CanonHeaders, <<Mouse, Laptop>>) }

\* callTool run to its return (or to the exit of the process).
Dispatch(functionCall, fail) ==
    LET d == callTool(sheet, functionCall, clock, fail)
    IN  /\ disp' = DispatchRecord(functionCall, d)
        /\ sheet' = d.rows
        /\ alive' = (alive /\ d.returned)
        /\ call' = IF d.invoked \in RegisteredTools
                   THEN CallRecord(d.invoked, d.argv, d.result, sheet, clock, fail)
                   ELSE call

CallTool ==
    /\ alive
    /\ ops < MaxOps
    /\ \E functionCall \in FunctionCalls :
          \E fail \in DispatchFailModes(functionCall.name) : Dispatch(functionCall, fail)
    /\ ops' = ops + 1
    /\ UNCHANGED <<clock, loopVars>>

InitDispatch ==
    /\ sheet \in DispatchTables
    /\ clock = 0
    /\ alive = TRUE
    /\ call = NoCall
    /\ ops = 0
    /\ disp = NoDispatch
    /\ LoopIdle

NextDispatch == CallTool \/ Tick

SpecDispatch == InitDispatch /\ [][NextDispatch]_vars

-----------------------------------------------------------------------------
(* The turn loop: bot.on("message") of the bot, the while loop of main *)

\* A part of a model reply holds one payload: a function call or a text.
FunctionCallPart(functionCall) ==
    [kind |-> "functionCall", functionCall |-> functionCall, text |-> Undef]
TextPart(text) ==
    [kind |-> "text", functionCall |-> [name |-> "", args |-> NoArgs], text |-> Str(text)]

\* A variant that takes any first part for a function call.
HasFunctionCallAnyPart(parts) == Len(parts) > 0

\* response.candidates?.[0]?.content?.parts?.[0]?.functionCall
HasFunctionCall(parts) == Len(parts) > 0 /\ parts[1].kind = "functionCall"

\* response.candidates?.[0]?.content?.parts?.[0]?.text, tested for truth
HasText(parts) ==
    Len(parts) > 0 /\ parts[1].kind = "text" /\ Truthy(parts[1].text)

\* What the model asks for in a turn.
AddCookies == [name |-> "addRow", args |-> Bag(Cookies)]

LoopCalls == { AddCookies }

\* Replies to the user's text: no part, a text, a text followed by a function
\* call, a function call.
FirstReplies ==
    { <<>>, <<TextPart("Done.")>>, <<TextPart("Done."), FunctionCallPart(AddCookies)>> }
      \cup { <<FunctionCallPart(f)>> : f \in LoopCalls }

\* Replies to the tool's result.
SecondReplies == { <<TextPart("Done.")>>, <<FunctionCallPart(AddCookies)>> }

\* A reply of the model, or the failure of the call.
Got(parts) == [state |-> "got", parts |-> parts]
Threw == [state |-> "threw", parts |-> <<>>]

\* The messages of the two variants.
FallbackText ==
    IF variant = "bot"
    THEN "I encountered an error processing your request. Please try again."
    ELSE "Gemini: (after tool call) No final text response or unexpected format."
UnprocessedText ==
    IF variant = "bot"
    THEN "I couldn't process your request. Please try again."
    ELSE "Gemini: No specific response or tool call generated, or text content is not in the expected format."
ApologyText ==
    IF variant = "bot"
    THEN "Sorry, I encountered an error. Please try again."
    ELSE "Gemini: I encountered an error. Please try rephrasing your request."

\* A variant that emits the first part's text without testing it.
SecondAnswerUntested(parts) ==
    IF Len(parts) > 0 THEN parts[1].text.s ELSE FallbackText

\* After the tool: the text of the second reply if it has one, the fallback
\* otherwise.
SecondAnswer(parts) ==
    IF HasText(parts) THEN parts[1].text.s ELSE FallbackText

\* A session started without the tool declarations.
startChatWithoutTools(tools) == {}

\* model.startChat({ tools: tools }): the declarations the session holds.
startChat(tools) == tools

\* A lookup that sees an entry only once a turn of the chat has finished, as
\* if the handler suspended between has and set.
SessionForSuspended(chatId) ==
    IF chatSessions[chatId] # 0
         /\ \E m \in Msgs : turn[m].chatId = chatId /\ turn[m].chat # 0 /\ turn[m].pc = "done"
    THEN chatSessions[chatId]
    ELSE created + 1

\* A variant that opens a session for every message.
SessionForAlwaysNew(chatId) == created + 1

\* if (!chatSessions.has(chatId)) chatSessions.set(chatId, model.startChat(...));
\* const chat = chatSessions.get(chatId)
SessionFor(chatId) ==
    IF chatSessions[chatId] # 0 THEN chatSessions[chatId] ELSE created + 1

\* chat.sendMessage(...) on a session: the submission joins those the
\* session has received.
Submit(session, m, kind) ==
    [sent EXCEPT ![session] = Append(@, [msg |-> m, kind |-> kind])]

\* A handler that ends where it should send.
EmitNothing(t, text, in) == [t EXCEPT !.pc = "done"]

\* bot.sendMessage(chatId, text), awaited; console.log(text), immediate.
Emit(t, text, in) ==
    [t EXCEPT !.replies = Append(@, [to |-> t.chatId, text |-> text]),
              !.pc = IF variant = "bot" THEN in ELSE "done",
              !.delivered = IF variant = "bot" THEN @
                            ELSE Append(@, [to |-> t.chatId, text |-> text])]

\* The send the handler awaits has returned: its reply has gone out.
Sent(t) == [t EXCEPT !.pc = "done", !.delivered = Append(@, t.replies[Len(t.replies)])]

\* callTool needs the backend (and so suspends the handler) only when the
\* method it invokes makes a backend call.
NeedsBackend(functionCall) ==
    functionCall.args.defined /\ Member(functionCall.name) \in {"tool", "getSheetInstance"}

\* await callTool(functionCall), then chat.sendMessage([toolResponse]).
RunTool(m, t, fail) ==
    LET d == callTool(sheet, t.functionCall, clock, fail)
    IN  /\ sheet' = d.rows
        /\ alive' = d.returned
        /\ turn' = [turn EXCEPT ![m] =
                       [t EXCEPT !.toolCalls = @ + 1, !.toolResponse = d.envelope,
                                 !.pc = IF d.returned THEN "awaitReply2" ELSE "exit"]]
        /\ sent' = IF d.returned THEN Submit(t.chat, m, "toolResponse") ELSE sent

\* A loop that reads the next line as soon as the turn before it has started.
Started(m) == turn[m].pc # "new"

Finished(m) == turn[m].pc \in {"done", "rejected"}

\* The turns of a session that are between the model's tool request and the
\* submission of the tool's result: what a turn records when it submits its
\* text (a record of the run, not a value of the program).
MidRoundTrip(session) == {k \in Msgs : turn[k].chat = session /\ turn[k].pc = "awaitTool"}

\* The chats a message may come from. Chat ids are interchangeable, so the
\* first message is taken to come from chat 1.
Senders(m) == IF m = 1 THEN {1} ELSE Chats

\* The backend's answers to the tool of a turn.
LoopFailModes == {"none"}

\* bot.on("message"): a message arrives; the handler runs to its first await.
Message(m) ==
    /\ variant = "bot" /\ alive
    /\ turn[m].pc = "new"
    /\ \A k \in 1..(m - 1) : turn[k].pc # "new"
    /\ \E chatId \in Senders(m), hasText \in BOOLEAN :
          IF ~hasText
          THEN /\ turn' = [turn EXCEPT ![m] = [@ EXCEPT !.pc = "done", !.chatId = chatId]]
               /\ UNCHANGED <<chatSessions, created, sessionTools, sent>>
          ELSE LET has == chatSessions[chatId] # 0
                   chat == SessionFor(chatId)
               IN  /\ chatSessions' = [chatSessions EXCEPT ![chatId] = chat]
                   /\ created' = IF has THEN created ELSE created + 1
                   /\ sessionTools' = IF has THEN sessionTools
                                      ELSE [sessionTools EXCEPT ![chat] = startChat(RegisteredTools)]
                   /\ sent' = Submit(chat, m, "text")
                   /\ turn' = [turn EXCEPT ![m] =
                                  [@ EXCEPT !.pc = "awaitReply1", !.chatId = chatId,
                                            !.chat = chat,
                                            !.during = MidRoundTrip(chat)]]
    /\ UNCHANGED <<sheet, clock, alive, call, ops, disp, variant, exited>>

\* readlineSync.question: the next line is read once the turn before it is over.
Prompt(m) ==
    /\ variant = "cli" /\ alive /\ ~exited
    /\ turn[m].pc = "new"
    /\ \A k \in 1..(m - 1) : Finished(k)
    /\ \E line \in {"exit", "text"} :
          IF line = "exit"
          THEN /\ exited' = TRUE
               /\ UNCHANGED <<sent, turn>>
          ELSE /\ sent' = Submit(chatSessions[1], m, "text")
               /\ turn' = [turn EXCEPT ![m] =
                              [@ EXCEPT !.pc = "awaitReply1", !.chatId = 1,
                                        !.chat = chatSessions[1],
                                        !.during = MidRoundTrip(chatSessions[1])]]
               /\ UNCHANGED exited
    /\ UNCHANGED <<sheet, clock, alive, call, ops, disp, variant, chatSessions, created, sessionTools>>

\* The first chat.sendMessage returns or fails.
FirstReply(m) ==
    /\ alive
    /\ turn[m].pc = "awaitReply1"
    /\ \E r \in {Got(parts) : parts \in FirstReplies} \cup {Threw} :
          LET t == [turn[m] EXCEPT !.first = r]
          IN
          IF r = Threw
          THEN /\ turn' = [turn EXCEPT ![m] = Emit(t, ApologyText, "awaitSendCatch")]
               /\ UNCHANGED <<sheet, alive, sent>>
          ELSE IF HasFunctionCall(r.parts)
          THEN LET f == [t EXCEPT !.functionCall = r.parts[1].functionCall]
               IN  IF NeedsBackend(f.functionCall)
                   THEN /\ turn' = [turn EXCEPT ![m] = [f EXCEPT !.pc = "awaitTool"]]
                        /\ UNCHANGED <<sheet, alive, sent>>
                   ELSE RunTool(m, f, "none")
          ELSE IF HasText(r.parts)
          THEN /\ turn' = [turn EXCEPT ![m] = Emit(t, r.parts[1].text.s, "awaitSend")]
               /\ UNCHANGED <<sheet, alive, sent>>
          ELSE /\ turn' = [turn EXCEPT ![m] = Emit(t, UnprocessedText, "awaitSend")]
               /\ UNCHANGED <<sheet, alive, sent>>
    /\ UNCHANGED <<clock, call, ops, disp, variant, chatSessions, created, sessionTools, exited>>

\* The backend calls of the tool return or fail; callTool returns its envelope
\* and the handler submits it.
ToolReturns(m) ==
    /\ alive
    /\ turn[m].pc = "awaitTool"
    /\ \E fail \in LoopFailModes : RunTool(m, turn[m], fail)
    /\ UNCHANGED <<clock, call, ops, disp, variant, chatSessions, created, sessionTools, exited>>

\* The second chat.sendMessage returns or fails.
SecondReply(m) ==
    /\ alive
    /\ turn[m].pc = "awaitReply2"
    /\ \E r \in {Got(parts) : parts \in SecondReplies} \cup {Threw} :
          LET t == [turn[m] EXCEPT !.second = r]
          IN  turn' = [turn EXCEPT ![m] =
                          IF r = Threw THEN Emit(t, ApologyText, "awaitSendCatch")
                          ELSE Emit(t, SecondAnswer(r.parts), "awaitSend")]
    /\ UNCHANGED <<sheet, clock, alive, call, ops, disp, variant, chatSessions,
                   created, sessionTools, sent, exited>>

\* A bot.sendMessage of the try block returns, or fails and the catch block
\* sends the apology.
SendReturns(m) ==
    /\ alive
    /\ turn[m].pc = "awaitSend"
    /\ \E ok \in BOOLEAN :
          turn' = [turn EXCEPT ![m] =
                      IF ok THEN Sent(@) ELSE Emit(@, ApologyText, "awaitSendCatch")]
    /\ UNCHANGED <<sheet, clock, alive, call, ops, disp, variant, chatSessions,
                   created, sessionTools, sent, exited>>

\* The bot.sendMessage of the catch block returns, or fails: the handler's
\* promise is rejected with nothing to handle it, which ends the process or
\* not, depending on the runtime.
CatchSendReturns(m) ==
    /\ alive
    /\ turn[m].pc = "awaitSendCatch"
    /\ \E ok \in BOOLEAN, ends \in BOOLEAN :
          /\ turn' = [turn EXCEPT ![m] = IF ok THEN Sent(@) ELSE [@ EXCEPT !.pc = "rejected"]]
          /\ alive' = (ok \/ ~ends)
    /\ UNCHANGED <<sheet, clock, call, ops, disp, variant, chatSessions, created, sessionTools,
                   sent, exited>>

Init ==
    /\ sheet = Table(CanonHeaders, <<Laptop>>)
    /\ clock = 0
    /\ alive = TRUE
    /\ call = NoCall
    /\ ops = 0
    /\ disp = NoDispatch
    /\ variant \in {"bot", "cli"}
    \* const chat = model.startChat({ tools: tools }) before the loop
    /\ chatSessions = [c \in Chats |-> IF variant = "cli" /\ c = 1 THEN 1 ELSE 0]
    /\ created = IF variant = "cli" THEN 1 ELSE 0
    /\ sessionTools = [session \in Msgs |->
                          IF variant = "cli" /\ session = 1
                          THEN startChat(RegisteredTools) ELSE {}]
    /\ sent = [session \in Msgs |-> <<>>]
    /\ turn = [m \in Msgs |-> NewTurn]
    /\ exited = FALSE

Next ==
    \E m \in Msgs :
        \/ Message(m)
        \/ Prompt(m)
        \/ FirstReply(m)
        \/ ToolReturns(m)
        \/ SecondReply(m)
        \/ SendReturns(m)
        \/ CatchSendReturns(m)

Spec == Init /\ [][Next]_vars

-----------------------------------------------------------------------------
(* Vocabulary of the dispatcher's properties *)

Requested == disp.fc.name
Content == disp.envelope.functionResponse.response.content

\* The value the bag holds under a key.
ArgOf(args, key) ==
    LET i == CHOOSE i \in 1..Len(args.entries) : args.entries[i].key = key
    IN  args.entries[i].value

Carries(args, keys) ==
    /\ args.defined
    /\ {args.entries[i].key : i \in 1..Len(args.entries)} = keys
    /\ Len(args.entries) = Cardinality(keys)

-----------------------------------------------------------------------------
(* C5 *)

\* C5 as stated: a request naming none of the three registered tools, other
\* members of the adapter object included, is answered with an envelope
\* carrying that name whose payload says the operation is not implemented,
\* and no adapter method is invoked.
C5_UnregisteredNotImplemented ==
    (ops > 0 /\ Requested # "" /\ Requested \notin RegisteredTools) =>
        /\ disp.returned
        /\ disp.envelope =
              Envelope(Requested, Result("Error: Function ${name} is not implemented.",
                                         <<Str(Requested)>>))
        /\ disp.invoked = "none"

-----------------------------------------------------------------------------
(* C6 *)

\* C6 as stated: whatever the name and the argument bag, callTool returns an
\* envelope carrying the requested name whose content is a string: the
\* adapter's result when the method returned, the failure's message wrapped
\* when it raised.
C6_AlwaysStringEnvelope ==
    (ops > 0 /\ Requested # "") =>
        /\ disp.returned
        /\ disp.envelope.functionResponse.name = Requested
        /\ Content.type = "string"
        /\ disp.invoked \in RegisteredTools => Content = call.result

-----------------------------------------------------------------------------
(* C7 *)

\* C7 as stated: an addRow request carrying itemName, quantity and price
\* reaches the adapter as (itemName, quantity, price), and an
\* updateItemQuantity request carrying itemName and newQuantity as
\* (itemName, newQuantity), whatever the order of the keys in the bag.
C7_NamedArgumentsInPlace ==
    /\ (Requested = "addRow" /\ Carries(disp.fc.args, {"itemName", "quantity", "price"})) =>
          /\ disp.invoked = "addRow"
          /\ disp.argv = <<ArgOf(disp.fc.args, "itemName"), ArgOf(disp.fc.args, "quantity"),
                           ArgOf(disp.fc.args, "price")>>
    /\ (Requested = "updateItemQuantity"
          /\ Carries(disp.fc.args, {"itemName", "newQuantity"})) =>
          /\ disp.invoked = "updateItemQuantity"
          /\ disp.argv = <<ArgOf(disp.fc.args, "itemName"),
                           ArgOf(disp.fc.args, "newQuantity")>>

-----------------------------------------------------------------------------
(* Vocabulary of the turn loop's properties *)

\* The submissions a turn has made to its session, in order.
RECURSIVE KindsOf(_, _)
KindsOf(history, m) ==
    IF history = <<>> THEN <<>>
    ELSE IF history[1].msg = m
         THEN <<history[1].kind>> \o KindsOf(Tail(history), m)
         ELSE KindsOf(Tail(history), m)

Submissions(m) == IF turn[m].chat = 0 THEN <<>> ELSE KindsOf(sent[turn[m].chat], m)

\* What a reply holds in its first part.
DirectText(parts) ==
    Len(parts) > 0 /\ parts[1].kind = "text" /\ parts[1].text.s # ""
ToolRequest(parts) == Len(parts) > 0 /\ parts[1].kind = "functionCall"

\* The turn has emitted `text` as its answer: nothing before it, and after it
\* only the apology of a handler whose transmission failed.
Answered(t, text) ==
    /\ t.replies # <<>>
    /\ t.replies[1] = [to |-> t.chatId, text |-> text]
    /\ \A i \in 2..Len(t.replies) : t.replies[i].text = ApologyText

\* The handler is past its last submission to the model.
Answering(t) == t.pc \in {"awaitSend", "awaitSendCatch", "done", "rejected"}

-----------------------------------------------------------------------------
(* C8 *)

\* C8: a turn executes at most one tool invocation and makes at most two
\* submissions to the model, the user's text and then one tool-result
\* envelope; when the second reply has no text, a further tool request
\* included, nothing more is dispatched or submitted and the fallback error
\* is the turn's answer.
C8_OneToolPerTurn ==
    \A m \in Msgs :
        LET t == turn[m]
        IN  /\ t.toolCalls <= 1
            /\ Submissions(m) \in {<<>>, <<"text">>, <<"text", "toolResponse">>}
            /\ Len(Submissions(m)) = 2 => t.toolCalls = 1
            /\ (t.second.state = "got" /\ ~DirectText(t.second.parts)) =>
                  /\ Answered(t, FallbackText)
                  /\ Answering(t)
                  /\ t.toolCalls = 1
                  /\ Submissions(m) = <<"text", "toolResponse">>

\* A turn whose second reply was another tool request, and that is over.
C8_Witness ==
    \E m \in Msgs :
        /\ turn[m].second.state = "got"
        /\ ToolRequest(turn[m].second.parts)
        /\ turn[m].pc = "done"
        /\ turn[m].toolCalls = 1
        /\ turn[m].replies = <<[to |-> turn[m].chatId, text |-> FallbackText]>>

-----------------------------------------------------------------------------
(* C9 *)

\* The model call of the turn failed, on the first or on the second submission.
ModelFailed(t) == t.first = Threw \/ t.second = Threw

-----------------------------------------------------------------------------
(* C10 *)

\* C10: when the first reply holds a direct text, that text is the turn's
\* answer and the turn dispatches no tool and submits nothing more; a tool is
\* dispatched only on a first reply that holds a tool request; a first reply
\* holding neither is answered with the "could not process" message.
C10_FirstReplyDecides ==
    \A m \in Msgs :
        LET t == turn[m]
        IN  /\ (t.first.state = "got" /\ DirectText(t.first.parts)) =>
                  /\ Answered(t, t.first.parts[1].text.s)
                  /\ Answering(t)
                  /\ t.toolCalls = 0
                  /\ t.toolResponse = NoEnvelope
                  /\ Submissions(m) = <<"text">>
            /\ t.toolCalls > 0 =>
                  (t.first.state = "got" /\ ToolRequest(t.first.parts))
            /\ (t.first.state = "got" /\ ~DirectText(t.first.parts)
                    /\ ~ToolRequest(t.first.parts)) =>
                  /\ Answered(t, UnprocessedText)
                  /\ Answering(t)
                  /\ t.toolCalls = 0
                  /\ Submissions(m) = <<"text">>

\* A turn answered with the text of its first reply while another turn has
\* run a tool.
C10_Witness ==
    \E m, k \in Msgs :
        /\ turn[m].first.state = "got"
        /\ DirectText(turn[m].first.parts)
        /\ turn[m].pc = "done"
        /\ turn[m].replies = <<[to |-> turn[m].chatId, text |-> "Done."]>>
        /\ turn[k].toolCalls = 1

-----------------------------------------------------------------------------
(* C11 *)

\* The message was a text message: its text is in a session's history.
TextMessage(m) ==
    \E session \in Msgs : \E i \in 1..Len(sent[session]) :
        sent[session][i] = [msg |-> m, kind |-> "text"]

\* The text messages chat c has sent so far, in order of arrival.
TextsOf(c) == {m \in Msgs : turn[m].chatId = c /\ TextMessage(m)}

\* C11: the map holds an entry exactly for the chats that have sent a text
\* message; the entry's session was started with the tool declarations, on
\* the chat's first text message (the first submission the session
\* received); every turn of the chat uses the session the map holds, so no
\* entry has been removed or changed; and one session was started per entry.
C11_SessionMap ==
    variant = "bot" =>
        /\ \A c \in Chats : chatSessions[c] # 0 <=> TextsOf(c) # {}
        /\ \A c \in Chats : chatSessions[c] # 0 =>
              LET session == chatSessions[c]
                  firstText == CHOOSE m \in TextsOf(c) : \A k \in TextsOf(c) : m <= k
              IN  /\ sessionTools[session] = RegisteredTools
                  /\ sent[session][1] = [msg |-> firstText, kind |-> "text"]
                  /\ \A m \in TextsOf(c) : turn[m].chat = session
                  /\ \A d \in Chats : chatSessions[d] = session => d = c
        /\ created = Cardinality({c \in Chats : chatSessions[c] # 0})
        /\ \A session \in Msgs : session > created => sessionTools[session] = {}

\* Chat 1 has sent a text and has its session; chat 2 has sent a message
\* without text and has none.
C11_Witness ==
    /\ variant = "bot"
    /\ chatSessions[1] # 0
    /\ sessionTools[chatSessions[1]] = RegisteredTools
    /\ turn[1].chat = chatSessions[1]
    /\ turn[2].chatId = 2
    /\ turn[2].pc = "done"
    /\ chatSessions[2] = 0

-----------------------------------------------------------------------------
(* C12 *)

IsRead == call.op = "readInventory" /\ call.fail = "none"

\* C12 as stated: readInventory returns the fixed "no data" message when the
\* table has no data rows, whether it is empty or holds only its header
\* row, and a summary with one line per data row otherwise.
C12_NoDataWithoutRows ==
    IsRead =>
        IF Len(call.before) <= 1
        THEN call.result = Result("No data found in inventory.", <<>>)
        ELSE /\ call.result.text = "Current Inventory:\n"
             /\ Len(call.result.lines) = Len(call.before) - 1

-----------------------------------------------------------------------------
(* C13 *)

MissingColumnText ==
    "Error: Missing expected column (Item Name, Quantity, or Last Updated) in your sheet headers. Please ensure the sheet has these exact headers."

\* The table has a header row, and it lacks one of the named headers.
Lacks(rows, names) == Len(rows) > 0 /\ \E name \in names : ~HasHeader(rows, name)

\* C13 as stated: when the header row lacks a header an operation needs, the
\* operation returns the missing-column failure and writes nothing:
\* updateItemQuantity when Name, Quantity or Last Updated is missing,
\* readInventory when any of the four headers it renders is missing.
C13_MissingHeaderFailsDistinctly ==
    /\ (IsUpdate /\ call.fail # "get"
          /\ Lacks(call.before, {"Name", "Quantity", "Last Updated"})) =>
          /\ call.result = Result(MissingColumnText, <<>>)
          /\ sheet = call.before
    /\ (IsRead /\ Lacks(call.before, {"Name", "Quantity", "Price", "Last Updated"})) =>
          /\ call.result = Result(MissingColumnText, <<>>)
          /\ sheet = call.before

-----------------------------------------------------------------------------
(* C14 *)

\* The failure strings of the three operations.
FailureOf(op, argv) ==
    CASE op = "readInventory" -> Result("Failed to read inventory.", <<>>)
      [] op = "addRow" -> Result("Failed to add '${itemName}'.", <<At(argv, 0)>>)
      [] op = "updateItemQuantity" -> Result("Failed to update '${itemName}'.", <<At(argv, 0)>>)

\* The call got as far as its write to the table.
WriteAttempted ==
    \/ call.op = "addRow"
    \/ /\ IsUpdate
       /\ UpdName.k = "str"
       /\ HasUpdateHeaders(call.before)
       /\ NamedRows(call.before, UpdName) # {}

\* A backend call of the operation failed: its read, or a write it attempted.
BackendFailed ==
    \/ call.op # "none" /\ call.fail = "get"
    \/ call.fail \notin {"none", "get"} /\ WriteAttempted

\* C14 as stated: an operation whose backend call fails returns its failure
\* string, naming the item for add and update, and leaves the table as it
\* was; in particular no update leaves a row whose quantity cell it has
\* written without having written its last-updated cell.
C14_FailureLeavesTableUnchanged ==
    BackendFailed =>
        /\ call.result = FailureOf(call.op, call.argv)
        /\ sheet = call.before

-----------------------------------------------------------------------------
(* C15 *)

\* The rows (header included, numbered from 1) the call has changed.
ChangedRows == {i \in 1..Len(call.before) : sheet[i] # call.before[i]}

\* The 1-based columns under the first Quantity and the first Last Updated
\* header.
WrittenColumns(rows) ==
    {indexOf(rows[1], Str("Quantity")) + 1, indexOf(rows[1], Str("Last Updated")) + 1}

\* C15: an updateItemQuantity call, whatever its outcome, changes at most one
\* row: the first data row whose name matches ignoring case; of that row
\* only the quantity and last-updated cells are rewritten; the header row and
\* every other row, later matching rows included, are as before.
C15_FirstMatchOnly ==
    IsUpdate =>
        /\ Len(sheet) = Len(call.before)
        /\ Cardinality(ChangedRows) <= 1
        /\ \A i \in ChangedRows :
              /\ i > 1
              /\ NamedRows(call.before, UpdName) # {}
              /\ i = FirstNamed(call.before, UpdName) + 1
              /\ \A c \in 1..Len(sheet[i]) :
                    c \notin WrittenColumns(call.before) =>
                        sheet[i][c] = OrElse(At(call.before[i], c - 1), Str(""))

\* A successful update of a name that two rows carry.
C15_Witness ==
    /\ IsUpdate
    /\ call.result.text = UpdatedText
    /\ Cardinality(NamedRows(call.before, UpdName)) = 2
    /\ Cardinality(ChangedRows) = 1

-----------------------------------------------------------------------------
(* C16 *)

\* The handler of message m is suspended at an await.
InFlight(m) ==
    turn[m].pc \in {"awaitReply1", "awaitTool", "awaitReply2", "awaitSend", "awaitSendCatch"}

\* C16: in the bot no step of any handler, whatever handlers are in flight,
\* overwrites or removes a stored session handle, and a step starts a
\* session only to store it for a chat that had none: one session at most
\* per chat.
C16_NoSessionRace ==
    [][variant = "bot" =>
          /\ \A c \in Chats : chatSessions[c] # 0 => chatSessions'[c] = chatSessions[c]
          /\ created' - created =
                Cardinality({c \in Chats : chatSessions[c] = 0 /\ chatSessions'[c] # 0})
          /\ created' - created <= 1]_vars

\* Two messages of one chat are in flight at once, neither answered, on the
\* one session started for the chat.
C16_Witness ==
    /\ variant = "bot"
    /\ InFlight(1) /\ InFlight(2)
    /\ turn[1].replies = <<>> /\ turn[2].replies = <<>>
    /\ turn[1].chatId = turn[2].chatId
    /\ turn[1].chat = turn[2].chat
    /\ created = 1

-----------------------------------------------------------------------------
(* C17 *)

\* The positions in a session's history of the submissions of message m.
PositionsOf(session, m) == {i \in 1..Len(sent[session]) : sent[session][i].msg = m}

\* The submissions of each turn are adjacent in the session's history.
Serialized(session) ==
    \A m \in Msgs : \A i, j \in PositionsOf(session, m) :
        \A k \in i..j : sent[session][k].msg = m

\* C17: in the command-line variant no text is submitted while another turn
\* is between its tool request and its tool result, and the submissions of
\* a turn are never separated by those of another; the bot has no such
\* guarantee (C17_Witness is reachable there).
C17_CommandLineSerialized ==
    variant = "cli" =>
        /\ \A m \in Msgs : turn[m].during = {}
        /\ \A session \in Msgs : Serialized(session)
        /\ \A m, k \in Msgs : (m < k /\ turn[k].pc # "new") => Finished(m)

\* In the bot, the text of message 2 was submitted to the session of its chat
\* while message 1 of that chat was between the model's tool request and
\* the submission of the tool's result, which came after.
C17_Witness ==
    /\ variant = "bot"
    /\ turn[2].during = {1}
    /\ turn[1].chatId = turn[2].chatId
    /\ sent[turn[1].chat] = << [msg |-> 1, kind |-> "text"], [msg |-> 2, kind |-> "text"],
                               [msg |-> 1, kind |-> "toolResponse"] >>
    /\ ~Serialized(turn[1].chat)

-----------------------------------------------------------------------------
(* C18 *)

\* The call the handler of message m awaits returns or fails, and the handler
\* runs to its next await or to its end.
Returns(m) ==
    FirstReply(m) \/ ToolReturns(m) \/ SecondReply(m) \/ SendReturns(m) \/ CatchSendReturns(m)

\* Message m has arrived with a text (bot).
TextTurn(m) == variant = "bot" /\ turn[m].chat # 0

\* Message m has arrived without text (bot).
NoTextTurn(m) == variant = "bot" /\ turn[m].chat = 0 /\ turn[m].pc # "new"

\* Exactly one reply has gone out for message m, to its chat, and its handler
\* is over.
RepliedOnce(m) ==
    /\ turn[m].pc = "done"
    /\ Len(turn[m].delivered) = 1
    /\ turn[m].delivered[1].to = turn[m].chatId

=============================================================================
